---- MODULE Spec2Model ----
(***************************************************************************)
(* The floor-plan service of src/app.py: a Flask application whose         *)
(* handlers save uploads under uploads/, call an external generative model *)
(* and persist one JSON record per result under outputs/.  Handlers run    *)
(* concurrently (one thread per request); the only state they share is the *)
(* two directories and the wall clock.                                     *)
(*                                                                         *)
(* Strings that the code inspects (file names, time stamps) are sequences  *)
(* of one-character strings; a file's content is a sequence of tokens.     *)
(***************************************************************************)
EXTENDS Integers, Sequences, FiniteSets, TLC

VARIABLES now, uploads, outputs, pc, loc, lastResp, started, modelCalls,
          nAnalysis, nPlan

vars == <<now, uploads, outputs, pc, loc, lastResp, started, modelCalls,
          nAnalysis, nPlan>>

-----------------------------------------------------------------------------
(* Bounds of the model. *)

\* Number of request threads that can be in flight at once.
NumWorkers == 2
\* Number of requests received in one behaviour.
MaxRequests == 3
\* Clock second at which the behaviour starts, and the ticks after it.
StartTime == 9
MaxTicks == 1
\* Longest client file name drawn in the file-name specification.
MaxNameLen == 5

Workers == 1..NumWorkers

-----------------------------------------------------------------------------
(* Strings. *)

s_analysis_ == <<"a", "n", "a", "l", "y", "s", "i", "s", "_">>
s_plan_ == <<"p", "l", "a", "n", "_">>
s_json == <<".", "j", "s", "o", "n">>
s_uploads == <<"u", "p", "l", "o", "a", "d", "s">>
s_outputs == <<"o", "u", "t", "p", "u", "t", "s">>

Digits == <<"0", "1", "2", "3", "4", "5", "6", "7", "8", "9">>

\* str.lower() on the letters the model draws.
Lower(c) ==
    CASE c = "A" -> "a"
      [] c = "B" -> "b"
      [] c = "M" -> "m"
      [] c = "P" -> "p"
      [] OTHER -> c

lower(s) == [i \in 1..Len(s) |-> Lower(s[i])]

\* s.endswith(suffix)
endswith(s, suffix) ==
    /\ Len(s) >= Len(suffix)
    /\ SubSeq(s, Len(s) - Len(suffix) + 1, Len(s)) = suffix

\* s.startswith(prefix)
startswith(s, prefix) ==
    /\ Len(s) >= Len(prefix)
    /\ SubSeq(s, 1, Len(prefix)) = prefix

\* c in s
contains(s, c) == \E i \in 1..Len(s) : s[i] = c

\* Position of the last occurrence of c in s (0 when there is none).
rfind(s, c) ==
    IF contains(s, c)
    THEN CHOOSE i \in 1..Len(s) :
            /\ s[i] = c
            /\ \A j \in (i + 1)..Len(s) : s[j] # c
    ELSE 0

\* s.rsplit(c, 1)[1]: the text after the last c.
rsplit_last(s, c) == SubSeq(s, rfind(s, c) + 1, Len(s))

\* Code point order of the characters a time stamp holds.
Ord(c) == CHOOSE i \in 1..Len(Digits) : Digits[i] = c

\* Python's s < t on strings: lexicographic by code point.
StrLess(s, t) ==
    \E k \in 0..Len(s) :
        /\ k <= Len(t)
        /\ \A i \in 1..k : s[i] = t[i]
        /\ \/ k = Len(s) /\ k < Len(t)
           \/ k < Len(s) /\ k < Len(t) /\ Ord(s[k + 1]) < Ord(t[k + 1])

-----------------------------------------------------------------------------
(* Configuration, src/app.py lines 16-21. *)

MAX_CONTENT_LENGTH == 16 * 1024 * 1024

ALLOWED_EXTENSIONS ==
    { <<"p", "n", "g">>, <<"j", "p", "g">>, <<"j", "p", "e", "g">>,
      <<"g", "i", "f">>, <<"b", "m", "p">> }

\* allowed_file with the extension compared as written (no lower()).
allowed_file_case_sensitive(filename) ==
    /\ contains(filename, ".")
    /\ rsplit_last(filename, ".") \in ALLOWED_EXTENSIONS

allowed_file(filename) ==
    /\ contains(filename, ".")
    /\ lower(rsplit_last(filename, ".")) \in ALLOWED_EXTENSIONS

-----------------------------------------------------------------------------
(* werkzeug.utils.secure_filename, called at src/app.py line 80. *)

SafeChars ==
    { "a", "b", "m", "p", "t", "x", "A", "B", "M", "P", "_", ".", "-" }
        \cup { Digits[i] : i \in 1..Len(Digits) }

\* filename.replace(os.sep, " ")
ReplaceSep(s) == [i \in 1..Len(s) |-> IF s[i] = "/" THEN " " ELSE s[i]]

RECURSIVE LStripSpace(_)
LStripSpace(s) ==
    IF s = <<>> THEN <<>>
    ELSE IF Head(s) = " " THEN LStripSpace(Tail(s)) ELSE s

\* "_".join(words) for a string that does not start with white space.
RECURSIVE JoinRest(_)
JoinRest(s) ==
    IF s = <<>> THEN <<>>
    ELSE IF Head(s) # " " THEN <<Head(s)>> \o JoinRest(Tail(s))
    ELSE IF LStripSpace(s) = <<>> THEN <<>>
    ELSE <<"_">> \o JoinRest(LStripSpace(s))

\* "_".join(filename.split())
JoinWords(s) == JoinRest(LStripSpace(s))

\* s.strip("._")
RECURSIVE LStripDots(_)
LStripDots(s) ==
    IF s = <<>> THEN <<>>
    ELSE IF Head(s) \in {".", "_"} THEN LStripDots(Tail(s)) ELSE s

RECURSIVE RStripDots(_)
RStripDots(s) ==
    IF s = <<>> THEN <<>>
    ELSE IF s[Len(s)] \in {".", "_"} THEN RStripDots(SubSeq(s, 1, Len(s) - 1))
    ELSE s

IsSafeChar(c) == c \in SafeChars

secure_filename(filename) ==
    RStripDots(LStripDots(SelectSeq(JoinWords(ReplaceSep(filename)), IsSafeChar)))

-----------------------------------------------------------------------------
(* Time stamps, src/app.py lines 81 and 204.  The model's clock counts     *)
(* seconds; strftime pads every field with zeros to a fixed width, of      *)
(* which the model keeps a two-digit seconds field.                        *)

strftime(t) == <<Digits[((t \div 10) % 10) + 1], Digits[(t % 10) + 1]>>

\* The upload stored under the sanitized name alone.
upload_name_unstamped(timestamp, filename) == filename

\* f"{timestamp}_{filename}", line 82.
upload_name(timestamp, filename) == timestamp \o <<"_">> \o filename

\* f"analysis_{timestamp}.json", line 148.
analysis_filename(timestamp) == s_analysis_ \o timestamp \o s_json

\* f"plan_{timestamp}.json", line 213.
plan_filename(timestamp) == s_plan_ \o timestamp \o s_json

-----------------------------------------------------------------------------
(* Images.  An upload's bytes are one token: <<"img", w, h>> decodes to an *)
(* image of that size, anything else makes Image.open raise.               *)

Image_open(bytes) ==
    IF Len(bytes) = 1 /\ bytes[1][1] = "img"
    THEN [ok |-> TRUE, width |-> bytes[1][2], height |-> bytes[1][3]]
    ELSE [ok |-> FALSE]

\* round(x, 2) of the ratio w / h, kept in hundredths (ties to even).
RoundRatio(w, h) ==
    LET q == (100 * w) \div h
        r == (100 * w) % h
    IN  IF 2 * r > h \/ (2 * r = h /\ q % 2 = 1) THEN q + 1 ELSE q

process_image_dimensions(image) ==
    [width |-> image.width, height |-> image.height,
     aspect_ratio |-> RoundRatio(image.width, image.height)]

-----------------------------------------------------------------------------
(* json.dump and json.load.  A dumped object is "{", one token per key in  *)
(* the dict's insertion order, "}".  A file that was opened for writing    *)
(* and not yet (or never) completely written holds a proper prefix.        *)

json_dump(d, keys) ==
    <<<<"{">>>> \o [i \in 1..Len(keys) |-> <<"kv", keys[i], d[keys[i]]>>]
        \o <<<<"}">>>>

\* json.load that takes the opening brace alone for an object.
json_load_lenient(content) ==
    IF Len(content) >= 1 /\ content[1][1] = "{"
    THEN LET body == SelectSeq(content, LAMBDA t : t[1] = "kv")
             keys == { body[i][2] : i \in 1..Len(body) }
         IN  [ok |-> TRUE,
              data |-> [k \in keys |->
                          LET i == CHOOSE i \in 1..Len(body) : body[i][2] = k
                          IN  body[i][3]]]
    ELSE [ok |-> FALSE]

json_load(content) ==
    IF /\ Len(content) >= 2
       /\ content[1][1] = "{"
       /\ content[Len(content)][1] = "}"
       /\ \A i \in 2..(Len(content) - 1) : content[i][1] = "kv"
    THEN LET body == SubSeq(content, 2, Len(content) - 1)
             keys == { body[i][2] : i \in 1..Len(body) }
         IN  [ok |-> TRUE,
              data |-> [k \in keys |->
                          LET i == CHOOSE i \in 1..Len(body) :
                                      /\ body[i][2] = k
                                      /\ \A j \in (i + 1)..Len(body) :
                                            body[j][2] # k
                          IN  body[i][3]]]
    ELSE [ok |-> FALSE]

\* dict.get(key, default)
get(d, key, default) == IF key \in DOMAIN d THEN d[key] ELSE default

AnalysisKeys == <<"timestamp", "filename", "image_info", "analysis", "success">>
PlanKeys == <<"timestamp", "requirements", "generated_plan", "success">>

\* analysis_data, lines 139-145.
analysis_data(timestamp, filename, image_info, text) ==
    [timestamp |-> timestamp, filename |-> filename,
     image_info |-> image_info, analysis |-> text, success |-> TRUE]

\* plan_data, lines 205-210.
plan_data(timestamp, requirements, text) ==
    [timestamp |-> timestamp, requirements |-> requirements,
     generated_plan |-> text, success |-> TRUE]

-----------------------------------------------------------------------------
(* Inputs the clients send and the outcomes the environment produces. *)

ImgA == << <<"img", 10, 10>> >>
ImgB == << <<"img", 4, 3>> >>
NotAnImage == << <<"raw", 0, 0>> >>
Bytes == {ImgA, ImgB, NotAnImage}

\* Client file names of the file-name specification: every string of at
\* most MaxNameLen characters over NameAlphabet.
NameAlphabet == {"b", "m", "p", "B", ".", "/"}
AllNames == UNION { [1..n -> NameAlphabet] : n \in 0..MaxNameLen }

NoFile == [has_image |-> FALSE, filename |-> <<>>, bytes |-> <<>>,
           content_length |-> 1]

Upload(name, bytes, size) ==
    [has_image |-> TRUE, filename |-> name, bytes |-> bytes,
     content_length |-> size]

\* Uploads of the service specification: no image field, an empty name, a
\* name that is not an image's, one name with each content, a second name
\* that secure_filename maps to the first, and a body over the limit.
UploadRequests ==
    { NoFile,
      Upload(<<>>, ImgA, 1),
      Upload(<<"a", ".", "t", "x", "t">>, ImgA, 1),
      Upload(<<"/", "a", ".", "b", "m", "p">>, ImgA, 1),
      Upload(<<"a", ".", "b", "m", "p">>, ImgA, MAX_CONTENT_LENGTH + 1) }
        \cup { Upload(<<"a", ".", "b", "m", "p">>, b, 1) : b \in Bytes }

NameRequests ==
    {NoFile}
        \cup { Upload(n, ImgA, 1) : n \in AllNames }
        \cup { Upload(<<".", "b", "m", "p">>, NotAnImage, 1),
               Upload(<<".", "b", "m", "p">>, ImgA, MAX_CONTENT_LENGTH + 1) }

\* Bodies of /generate_plan: no JSON at all, an object without the key, and
\* objects with an empty and two non-empty requirements.
NoDict == [k \in {} |-> ""]
PlanBodies ==
    { [is_json |-> FALSE, data |-> NoDict],
      [is_json |-> TRUE, data |-> NoDict],
      [is_json |-> TRUE, data |-> [requirements |-> ""]],
      [is_json |-> TRUE, data |-> [requirements |-> "two rooms"]],
      [is_json |-> TRUE, data |-> [requirements |-> "a loft"]] }

\* What model.generate_content does: it raises, or its text is empty, or
\* it answers.
ModelOutcomes == {"raise", "", "ROOM: 100sqft"}

\* What a write to disk does: it succeeds, the open fails, or the open
\* succeeds and a later write or the close fails.
IoOutcomes == {"ok", "open_fails", "write_fails"}

GEMINI_API_KEY == <<"k", "e", "y">>

-----------------------------------------------------------------------------
(* Responses. *)

\* An error message: its fixed text and the text of the exception, if any.
Err(message) == <<message, "">>

\* flask.jsonify(body): status 200.
jsonify(body) == [status |-> 200, json |-> TRUE, body |-> body]

\* @app.errorhandler(413), lines 298-303.
too_large ==
    [status |-> 413, json |-> TRUE,
     body |-> [error |-> Err("File too large. Maximum size is 16MB."),
               success |-> FALSE]]

\* @app.errorhandler(404), lines 305-310.
not_found ==
    [status |-> 404, json |-> TRUE,
     body |-> [error |-> Err("Endpoint not found"), success |-> FALSE]]

\* @app.errorhandler(500), lines 312-317.
internal_error ==
    [status |-> 500, json |-> TRUE,
     body |-> [error |-> Err("Internal server error"), success |-> FALSE]]

\* An exception that leaves analyze_image uncaught.
analyze_uncaught(e) == internal_error

\* except Exception of analyze_image, lines 157-162.
analyze_except(e) ==
    jsonify([error |-> <<"Error processing image: ", e>>, success |-> FALSE])

\* except Exception of generate_plan, lines 222-227.
generate_plan_except(e) ==
    jsonify([error |-> <<"Error generating plan: ", e>>, success |-> FALSE])

\* except Exception of get_history, lines 272-276.
get_history_except(e) ==
    jsonify([error |-> <<"Error fetching history: ", e>>, success |-> FALSE])

\* except Exception of download_file, lines 282-286.
download_except(e) ==
    jsonify([error |-> <<"File not found: ", e>>, success |-> FALSE])

NoResp ==
    [id |-> 0, endpoint |-> "none", request |-> <<>>, status |-> 0,
     json |-> FALSE, body |-> <<>>]

Resp(id, endpoint, request, r) ==
    [id |-> id, endpoint |-> endpoint, request |-> request,
     status |-> r.status, json |-> r.json, body |-> r.body]

NoLoc == [id |-> 0]

\* How much of a text is on disk when a write or the close fails: nothing,
\* or all but the last token.
PartialCuts(text) == {0, Len(text) - 1}

\* name -> content, added to or replaced in a directory.
WriteFile(dir, name, content) == (name :> content) @@ dir

-----------------------------------------------------------------------------
(* Paths: posixpath.normpath, werkzeug's safe_join and the files a path    *)
(* names.  The working directory holds app.py, uploads/ and outputs/.      *)

s_app_py == <<"a", "p", "p", ".", "p", "y">>
AppSource == << <<"py", 0, 0>> >>

\* path.split("/")
RECURSIVE Split(_)
Split(s) ==
    IF ~contains(s, "/") THEN <<s>>
    ELSE LET i == CHOOSE i \in 1..Len(s) :
                    s[i] = "/" /\ \A j \in 1..(i - 1) : s[j] # "/"
         IN  <<SubSeq(s, 1, i - 1)>> \o Split(SubSeq(s, i + 1, Len(s)))

\* The loop of posixpath.normpath over the components of a relative path.
RECURSIVE NormComps(_, _)
NormComps(comps, new_comps) ==
    IF comps = <<>> THEN new_comps
    ELSE LET comp == Head(comps)
             n == Len(new_comps)
         IN  IF comp = <<>> \/ comp = <<".">>
             THEN NormComps(Tail(comps), new_comps)
             ELSE IF comp # <<".", ".">> \/ n = 0 \/ new_comps[n] = <<".", ".">>
             THEN NormComps(Tail(comps), Append(new_comps, comp))
             ELSE NormComps(Tail(comps), SubSeq(new_comps, 1, n - 1))

\* "/".join(comps)
RECURSIVE JoinSlash(_)
JoinSlash(comps) ==
    IF comps = <<>> THEN <<>>
    ELSE IF Len(comps) = 1 THEN comps[1]
    ELSE comps[1] \o <<"/">> \o JoinSlash(Tail(comps))

\* posixpath.normpath(path)
normpath(path) ==
    LET initial == IF startswith(path, <<"/">>) THEN <<"/">> ELSE <<>>
        comps == IF initial = <<>>
                 THEN NormComps(Split(path), <<>>)
                 ELSE SelectSeq(NormComps(Split(path), <<>>),
                                LAMBDA c : c # <<".", ".">>)
        joined == initial \o JoinSlash(comps)
    IN  IF joined = <<>> THEN <<".">> ELSE joined

\* os.path.join(directory, filename)
path_join(directory, filename) ==
    IF startswith(filename, <<"/">>) THEN filename
    ELSE directory \o <<"/">> \o filename

\* The regular file a path names, seen from the working directory.
Stat(path) ==
    LET comps == Split(normpath(path))
    IN  IF Len(comps) = 1 /\ comps[1] = s_app_py
        THEN [isfile |-> TRUE, content |-> AppSource]
        ELSE IF Len(comps) = 2 /\ comps[1] = s_uploads
                   /\ comps[2] \in DOMAIN uploads
        THEN [isfile |-> TRUE, content |-> uploads[comps[2]]]
        ELSE IF Len(comps) = 2 /\ comps[1] = s_outputs
                   /\ comps[2] \in DOMAIN outputs
        THEN [isfile |-> TRUE, content |-> outputs[comps[2]]]
        ELSE [isfile |-> FALSE, content |-> <<>>]

\* werkzeug.security.safe_join(directory, filename)
safe_join(directory, filename) ==
    LET f == IF filename = <<>> THEN <<>> ELSE normpath(filename)
    IN  IF \/ startswith(f, <<"/">>)
           \/ f = <<".", ".">>
           \/ startswith(f, <<".", ".", "/">>)
        THEN [ok |-> FALSE, path |-> <<>>]
        ELSE [ok |-> TRUE, path |-> directory \o <<"/">> \o f]

\* A file sent back as it is: not a JSON body.
send_file(path) == [status |-> 200, json |-> FALSE, body |-> Stat(path).content]

\* flask.send_from_directory(directory, filename): the file, or NotFound.
send_from_directory(directory, filename) ==
    LET p == safe_join(directory, filename)
    IN  IF ~p.ok \/ ~Stat(p.path).isfile
        THEN [ok |-> FALSE, response |-> NoResp]
        ELSE [ok |-> TRUE, response |-> send_file(p.path)]

\* The rule /download/<filename>: the converter takes one non-empty path
\* segment.
route_matches(filename) == filename # <<>> /\ ~contains(filename, "/")

\* A rule /download/<path:filename> with the file opened where the joined
\* path points.
dispatch_download_unchecked(filename) ==
    IF filename = <<>> THEN not_found
    ELSE IF Stat(path_join(s_outputs, filename)).isfile
    THEN send_file(path_join(s_outputs, filename))
    ELSE download_except("404 Not Found")

\* GET /download/<filename>, lines 278-286, and the 404 handler for a path
\* no rule matches.
dispatch_download(filename) ==
    IF ~route_matches(filename) THEN not_found
    ELSE IF send_from_directory(s_outputs, filename).ok
    THEN send_from_directory(s_outputs, filename).response
    ELSE download_except("404 Not Found")

-----------------------------------------------------------------------------
(* The state after start-up (lines 24-44): both directories exist and are  *)
(* empty, the model is configured, no request has arrived.                 *)

Init ==
    /\ now = StartTime
    /\ uploads = [n \in {} |-> <<>>]
    /\ outputs = [n \in {} |-> <<>>]
    /\ pc = [r \in Workers |-> "idle"]
    /\ loc = [r \in Workers |-> NoLoc]
    /\ lastResp = NoResp
    /\ started = 0
    /\ modelCalls = 0
    /\ nAnalysis = 0
    /\ nPlan = 0

\* The wall clock passes to the next second.
Tick ==
    /\ now < StartTime + MaxTicks
    /\ now' = now + 1
    /\ UNCHANGED <<uploads, outputs, pc, loc, lastResp, started, modelCalls,
                   nAnalysis, nPlan>>

\* A worker takes a request.
Accept(r) ==
    /\ pc[r] = "idle"
    /\ started < MaxRequests
    /\ started' = started + 1

\* The handler returns: the response goes out and the worker is free.
Reply(r, id, endpoint, request, response) ==
    /\ lastResp' = Resp(id, endpoint, request, response)
    /\ pc' = [pc EXCEPT ![r] = "idle"]
    /\ loc' = [loc EXCEPT ![r] = NoLoc]

\* The handler goes on to its next step.
Goto(r, label, locals) ==
    /\ pc' = [pc EXCEPT ![r] = label]
    /\ loc' = [loc EXCEPT ![r] = locals]
    /\ UNCHANGED lastResp

-----------------------------------------------------------------------------
(* POST /analyze, lines 63-162. *)

\* Lines 68-84: the checks of the request, the name of the upload and
\* file.save.
AnalyzeReceive(r, req) ==
    /\ Accept(r)
    /\ LET id == started + 1
           timestamp == strftime(now)
           filename == upload_name(timestamp, secure_filename(req.filename))
       IN  IF req.content_length > MAX_CONTENT_LENGTH
           THEN /\ Reply(r, id, "/analyze", req,
                         analyze_except("413 Request Entity Too Large"))
                /\ UNCHANGED uploads
           ELSE IF ~req.has_image
           THEN /\ Reply(r, id, "/analyze", req,
                         jsonify([error |-> Err("No image uploaded"),
                                  success |-> FALSE]))
                /\ UNCHANGED uploads
           ELSE IF req.filename = <<>>
           THEN /\ Reply(r, id, "/analyze", req,
                         jsonify([error |-> Err("No file selected"),
                                  success |-> FALSE]))
                /\ UNCHANGED uploads
           ELSE IF ~allowed_file(req.filename)
           THEN /\ Reply(r, id, "/analyze", req,
                         jsonify([error |->
                                    Err("Invalid file type. Please upload an image."),
                                  success |-> FALSE]))
                /\ UNCHANGED uploads
           ELSE \E io \in IoOutcomes :
                  \/ /\ io = "ok"
                     /\ uploads' = WriteFile(uploads, filename, req.bytes)
                     /\ Goto(r, "a_saved",
                             [id |-> id, request |-> req,
                              timestamp |-> timestamp, filename |-> filename])
                  \/ /\ io = "open_fails"
                     /\ UNCHANGED uploads
                     /\ Reply(r, id, "/analyze", req, analyze_except("OSError"))
                  \/ /\ io = "write_fails"
                     /\ uploads' = WriteFile(uploads, filename, <<>>)
                     /\ Reply(r, id, "/analyze", req, analyze_except("OSError"))
    /\ UNCHANGED <<now, outputs, modelCalls, nAnalysis, nPlan>>

\* Lines 88-145: Image.open of the saved file, the image's dimensions and
\* the call of the model.
AnalyzeGenerate(r) ==
    /\ pc[r] = "a_saved"
    /\ LET l == loc[r]
           image == Image_open(uploads[l.filename])
       IN  IF ~image.ok
           THEN /\ Reply(r, l.id, "/analyze", l.request,
                         analyze_except("cannot identify image file"))
                /\ UNCHANGED modelCalls
           ELSE /\ modelCalls' = modelCalls + 1
                /\ \E text \in ModelOutcomes :
                     IF text = "raise"
                     THEN Reply(r, l.id, "/analyze", l.request,
                                analyze_except("provider error"))
                     ELSE IF text = ""
                     THEN Reply(r, l.id, "/analyze", l.request,
                                jsonify([error |-> Err("No response from AI model"),
                                         success |-> FALSE]))
                     ELSE Goto(r, "a_generated",
                               [id |-> l.id, request |-> l.request,
                                timestamp |-> l.timestamp,
                                analysis_data |->
                                  analysis_data(l.timestamp, l.filename,
                                                process_image_dimensions(image),
                                                text)])
    /\ UNCHANGED <<now, uploads, outputs, started, nAnalysis, nPlan>>

\* Line 150: open(analysis_path, 'w') creates the file or empties it.
AnalyzeOpen(r) ==
    /\ pc[r] = "a_generated"
    /\ LET l == loc[r]
       IN  \E io \in {"ok", "open_fails"} :
             \/ /\ io = "ok"
                /\ outputs' = WriteFile(outputs, analysis_filename(l.timestamp), <<>>)
                /\ Goto(r, "a_opened", l)
             \/ /\ io = "open_fails"
                /\ UNCHANGED outputs
                /\ Reply(r, l.id, "/analyze", l.request, analyze_except("OSError"))
    /\ UNCHANGED <<now, uploads, started, modelCalls, nAnalysis, nPlan>>

\* Lines 151-155: json.dump, the close of the file and the response.
AnalyzeDump(r) ==
    /\ pc[r] = "a_opened"
    /\ LET l == loc[r]
           name == analysis_filename(l.timestamp)
           text == json_dump(l.analysis_data, AnalysisKeys)
       IN  \E io \in {"ok", "write_fails"} :
             \/ /\ io = "ok"
                /\ outputs' = WriteFile(outputs, name, text)
                /\ nAnalysis' = nAnalysis + 1
                /\ Reply(r, l.id, "/analyze", l.request, jsonify(l.analysis_data))
             \/ /\ io = "write_fails"
                /\ \E k \in PartialCuts(text) :
                     outputs' = WriteFile(outputs, name, SubSeq(text, 1, k))
                /\ UNCHANGED nAnalysis
                /\ Reply(r, l.id, "/analyze", l.request, analyze_except("OSError"))
    /\ UNCHANGED <<now, uploads, started, modelCalls, nPlan>>

-----------------------------------------------------------------------------
(* POST /generate_plan, lines 164-227. *)

\* The handler without the check of line 172.
no_requirements_unchecked(requirements) == FALSE

\* Line 172, "not requirements".
no_requirements(requirements) == requirements = ""

\* Lines 169-200: the requirements and the call of the model.
PlanReceive(r, body) ==
    /\ Accept(r)
    /\ LET id == started + 1
           requirements == get(body.data, "requirements", "")
       IN  IF ~body.is_json
           THEN /\ Reply(r, id, "/generate_plan", body,
                         generate_plan_except("415 Unsupported Media Type"))
                /\ UNCHANGED modelCalls
           ELSE IF no_requirements(requirements)
           THEN /\ Reply(r, id, "/generate_plan", body,
                         jsonify([error |-> Err("No requirements provided"),
                                  success |-> FALSE]))
                /\ UNCHANGED modelCalls
           ELSE /\ modelCalls' = modelCalls + 1
                /\ \E text \in ModelOutcomes :
                     IF text = "raise"
                     THEN Reply(r, id, "/generate_plan", body,
                                generate_plan_except("provider error"))
                     ELSE IF text = ""
                     THEN Reply(r, id, "/generate_plan", body,
                                jsonify([error |-> Err("No response from AI model"),
                                         success |-> FALSE]))
                     ELSE Goto(r, "p_generated",
                               [id |-> id, request |-> body,
                                requirements |-> requirements, text |-> text])
    /\ UNCHANGED <<now, uploads, outputs, nAnalysis, nPlan>>

\* Lines 204-215: the time stamp, plan_data and open(plan_path, 'w').
PlanOpen(r) ==
    /\ pc[r] = "p_generated"
    /\ LET l == loc[r]
           timestamp == strftime(now)
       IN  \E io \in {"ok", "open_fails"} :
             \/ /\ io = "ok"
                /\ outputs' = WriteFile(outputs, plan_filename(timestamp), <<>>)
                /\ Goto(r, "p_opened",
                        [id |-> l.id, request |-> l.request,
                         timestamp |-> timestamp,
                         plan_data |-> plan_data(timestamp, l.requirements, l.text)])
             \/ /\ io = "open_fails"
                /\ UNCHANGED outputs
                /\ Reply(r, l.id, "/generate_plan", l.request,
                         generate_plan_except("OSError"))
    /\ UNCHANGED <<now, uploads, started, modelCalls, nAnalysis, nPlan>>

\* Lines 216-220: json.dump, the close of the file and the response.
PlanDump(r) ==
    /\ pc[r] = "p_opened"
    /\ LET l == loc[r]
           name == plan_filename(l.timestamp)
           text == json_dump(l.plan_data, PlanKeys)
       IN  \E io \in {"ok", "write_fails"} :
             \/ /\ io = "ok"
                /\ outputs' = WriteFile(outputs, name, text)
                /\ nPlan' = nPlan + 1
                /\ Reply(r, l.id, "/generate_plan", l.request, jsonify(l.plan_data))
             \/ /\ io = "write_fails"
                /\ \E k \in PartialCuts(text) :
                     outputs' = WriteFile(outputs, name, SubSeq(text, 1, k))
                /\ UNCHANGED nPlan
                /\ Reply(r, l.id, "/generate_plan", l.request,
                         generate_plan_except("OSError"))
    /\ UNCHANGED <<now, uploads, started, modelCalls, nAnalysis>>

-----------------------------------------------------------------------------
(* GET /test_api, lines 229-247. *)

TestApi(r) ==
    /\ Accept(r)
    /\ modelCalls' = modelCalls + 1
    /\ \E text \in ModelOutcomes :
         IF text = "raise"
         THEN Reply(r, started + 1, "/test_api", <<>>,
                    jsonify([success |-> FALSE,
                             error |-> <<"", "provider error">>,
                             api_key_configured |-> GEMINI_API_KEY # <<>>]))
         ELSE Reply(r, started + 1, "/test_api", <<>>,
                    jsonify([success |-> TRUE,
                             message |-> "API connection successful",
                             response |-> text,
                             api_key_configured |-> GEMINI_API_KEY # <<>>]))
    /\ UNCHANGED <<now, uploads, outputs, nAnalysis, nPlan>>

-----------------------------------------------------------------------------
(* GET /history, lines 249-276. *)

\* Lines 260-264: the entry of a record that json.load returned.
history_entry(filename, data) ==
    [filename |-> filename,
     timestamp |-> get(data, "timestamp", <<>>),
     type |-> IF "analysis" \in DOMAIN data THEN "analysis" ELSE "plan"]

\* The arrangements of a set of entries in a sequence.
Arrangements(S) ==
    { f \in [1..Cardinality(S) -> S] :
        \A i, j \in 1..Cardinality(S) : i # j => f[i] # f[j] }

\* Line 269, files.sort(key=timestamp, reverse=True), for entries appended
\* in the order os.listdir gave, which is any order: the sort is stable, so
\* the entries of one time stamp come out in any order.
sort_newest_first(S) ==
    { f \in Arrangements(S) :
        \A i, j \in 1..Len(f) :
            i < j => ~StrLess(f[i].timestamp, f[j].timestamp) }

\* Lines 252-255: os.listdir(OUTPUT_FOLDER) and the names ending in .json.
HistoryList(r) ==
    /\ Accept(r)
    /\ Goto(r, "h_listed",
            [id |-> started + 1,
             todo |-> { n \in DOMAIN outputs : endswith(n, s_json) },
             files |-> {}])
    /\ UNCHANGED <<now, uploads, outputs, modelCalls, nAnalysis, nPlan>>

\* Lines 256-266: one turn of the loop: the file is read and parsed; a file
\* that does not parse is skipped.
HistoryRead(r) ==
    /\ pc[r] = "h_listed"
    /\ \E filename \in loc[r].todo :
         LET parsed == json_load(outputs[filename])
         IN  Goto(r, "h_listed",
                  [loc[r] EXCEPT
                     !.todo = @ \ {filename},
                     !.files = IF parsed.ok
                               THEN @ \cup {history_entry(filename, parsed.data)}
                               ELSE @])
    /\ UNCHANGED <<now, uploads, outputs, started, modelCalls, nAnalysis, nPlan>>

\* Lines 269-270: the sort and the response.
HistoryRespond(r) ==
    /\ pc[r] = "h_listed"
    /\ loc[r].todo = {}
    /\ \E files \in sort_newest_first(loc[r].files) :
         Reply(r, loc[r].id, "/history", <<>>,
               jsonify([files |-> files, success |-> TRUE]))
    /\ UNCHANGED <<now, uploads, outputs, started, modelCalls, nAnalysis, nPlan>>

-----------------------------------------------------------------------------
(* GET /download/<filename>, GET /health and GET /. *)

\* The paths the clients ask for: the records, names that are not there,
\* and paths that lead out of outputs/.
DownloadPaths ==
    DOMAIN outputs
        \cup { <<"x">>, <<".", ".">>,
               <<".", ".", "/">> \o s_app_py,
               <<"x", "/", ".", ".", "/", ".", ".", "/">> \o s_app_py }
        \cup { <<".", ".", "/">> \o s_uploads \o <<"/">> \o u : u \in DOMAIN uploads }

Download(r, filename) ==
    /\ Accept(r)
    /\ Reply(r, started + 1, "/download", filename, dispatch_download(filename))
    /\ UNCHANGED <<now, uploads, outputs, modelCalls, nAnalysis, nPlan>>

\* Lines 288-295.
health_check ==
    jsonify([status |-> "healthy",
             timestamp |-> now,
             gemini_configured |-> GEMINI_API_KEY # <<>>,
             api_key_length |-> IF GEMINI_API_KEY # <<>>
                                THEN Len(GEMINI_API_KEY) ELSE 0])

Health(r) ==
    /\ Accept(r)
    /\ Reply(r, started + 1, "/health", <<>>, health_check)
    /\ UNCHANGED <<now, uploads, outputs, modelCalls, nAnalysis, nPlan>>

\* Lines 59-61: the page, or the 500 handler when the template is missing.
Index(r) ==
    /\ Accept(r)
    /\ \E found \in BOOLEAN :
         Reply(r, started + 1, "/", <<>>,
               IF found
               THEN [status |-> 200, json |-> FALSE, body |-> <<>>]
               ELSE internal_error)
    /\ UNCHANGED <<now, uploads, outputs, modelCalls, nAnalysis, nPlan>>

-----------------------------------------------------------------------------
(* The service: any worker takes any request or goes on with its own. *)

\* What worker r can do.
Handle(r) ==
    \/ \E req \in UploadRequests : AnalyzeReceive(r, req)
    \/ AnalyzeGenerate(r)
    \/ AnalyzeOpen(r)
    \/ AnalyzeDump(r)
    \/ \E body \in PlanBodies : PlanReceive(r, body)
    \/ PlanOpen(r)
    \/ PlanDump(r)
    \/ TestApi(r)
    \/ HistoryList(r)
    \/ HistoryRead(r)
    \/ HistoryRespond(r)
    \/ \E filename \in DownloadPaths : Download(r, filename)
    \/ Health(r)
    \/ Index(r)

Next == Tick \/ \E r \in Workers : Handle(r)

Spec == Init /\ [][Next]_vars

\* One upload, of any name, handled from its arrival to its response.
NextNames ==
    \/ Tick
    \/ started = 0 /\ \E req \in NameRequests : AnalyzeReceive(1, req)
    \/ AnalyzeGenerate(1)
    \/ AnalyzeOpen(1)
    \/ AnalyzeDump(1)

SpecNames == Init /\ [][NextNames]_vars

\* The service with one request at a time.
NextSeq == Tick \/ Handle(1)

SpecSeq == Init /\ [][NextSeq]_vars

\* /history while plans are written: any worker lists the records or
\* writes a plan.
NextHistory ==
    \/ Tick
    \/ \E r \in Workers :
         \/ PlanReceive(r, [is_json |-> TRUE,
                            data |-> [requirements |-> "two rooms"]])
         \/ PlanOpen(r)
         \/ PlanDump(r)
         \/ HistoryList(r)
         \/ HistoryRead(r)
         \/ HistoryRespond(r)

SpecHistory == Init /\ [][NextHistory]_vars

-----------------------------------------------------------------------------
(* Properties. *)

\* A response went out in this step.
Replied == lastResp'.id # lastResp.id

\* The file holds a whole dumped object: its closing brace was written.
IsWhole(content) == Len(content) >= 2 /\ content[Len(content)][1] = "}"

InFlight(r) == pc[r] # "idle"

Failure(resp) ==
    /\ resp.json
    /\ DOMAIN resp.body = {"error", "success"}
    /\ resp.body.success = FALSE

InvalidFileType == Err("Invalid file type. Please upload an image.")

RejectedAs(resp, error) == Failure(resp) /\ resp.body.error = error

\* C1: after successful /analyze and /generate_plan requests that wrote N
\* analysis records and M plan records, and nothing else, /history returns
\* N+M entries, each tagged by the kind of its record, newest first.
C1_HistoryListsEveryRecord ==
    (/\ lastResp.endpoint = "/history"
     /\ lastResp.id = started
     /\ started = nAnalysis + nPlan + 1)
    => LET files == lastResp.body.files
       IN  /\ Len(files) = nAnalysis + nPlan
           /\ Cardinality({ i \in 1..Len(files) : files[i].type = "analysis" })
                = nAnalysis
           /\ Cardinality({ i \in 1..Len(files) : files[i].type = "plan" })
                = nPlan
           /\ \A i, j \in 1..Len(files) :
                 i < j => ~StrLess(files[i].timestamp, files[j].timestamp)

\* C2: an upload stored under uploads/ keeps its bytes: the file.save of a
\* later upload of the same second and the same sanitized name does not
\* replace them.
C2_StoredUploadKept ==
    [][\A r \in Workers :
          (pc[r] = "idle" /\ pc'[r] = "a_saved")
          => \A u \in DOMAIN uploads :
                uploads[u] # <<>>
                => u \in DOMAIN uploads' /\ uploads'[u] = uploads[u]]_vars

\* C3: once a record file is written, no later request changes its content
\* or removes it.
C3_RecordsNeverChange ==
    [][\A f \in DOMAIN outputs :
          IsWhole(outputs[f]) => f \in DOMAIN outputs' /\ outputs'[f] = outputs[f]]_vars

\* C4: /generate_plan with empty or absent requirements answers success =
\* false, calls the model not at all and leaves outputs/ as it was.
C4_EmptyRequirementsRejected ==
    [][(/\ Replied
        /\ lastResp'.endpoint = "/generate_plan"
        /\ get(lastResp'.request.data, "requirements", "") = "")
       => /\ lastResp'.json
          /\ lastResp'.body.success = FALSE
          /\ modelCalls' = modelCalls
          /\ outputs' = outputs]_vars

C4_Witness ==
    /\ lastResp.endpoint = "/generate_plan"
    /\ lastResp.request = [is_json |-> TRUE, data |-> [requirements |-> ""]]
    /\ lastResp.body.success = FALSE
    /\ modelCalls > 0
    /\ \E f \in DOMAIN outputs : IsWhole(outputs[f])

\* C5: every response of /analyze has status 200; it is the record, or
\* {error, success: false}: no failure reaches the 500 handler.
C5_AnalyzeFailuresAnswer200 ==
    lastResp.endpoint = "/analyze"
    => /\ lastResp.status = 200
       /\ lastResp.json
       /\ \/ Failure(lastResp)
          \/ lastResp.body.success = TRUE

\* A failure of the last step: the record could not be written.
C5_Witness ==
    /\ lastResp.endpoint = "/analyze"
    /\ Failure(lastResp)
    /\ lastResp.body.error[2] = "OSError"
    /\ \E f \in DOMAIN outputs : ~IsWhole(outputs[f])

\* The text after the last "." of the name, in lower case, is one of png,
\* jpg, jpeg, gif, bmp.
Upper(c) ==
    CASE c = "a" -> "A"
      [] c = "b" -> "B"
      [] c = "m" -> "M"
      [] c = "p" -> "P"
      [] OTHER -> c

HasImageExtension(name) ==
    \E i \in 1..Len(name) :
        /\ name[i] = "."
        /\ \A j \in (i + 1)..Len(name) : name[j] # "."
        /\ \E ext \in { <<"p", "n", "g">>, <<"j", "p", "g">>,
                        <<"j", "p", "e", "g">>, <<"g", "i", "f">>,
                        <<"b", "m", "p">> } :
              /\ Len(name) - i = Len(ext)
              /\ \A k \in 1..Len(ext) : name[i + k] \in {ext[k], Upper(ext[k])}

\* The upload came with an image part and within the size limit.
CarriesFile(req) ==
    req.has_image /\ req.content_length <= MAX_CONTENT_LENGTH

\* The workers that hold an upload hold one whose name has an image
\* extension.
OnlyImagesInFlight ==
    \A r \in Workers :
        pc'[r] \in {"a_saved", "a_generated", "a_opened"}
        => HasImageExtension(loc'[r].request.filename)

\* The response went out in the step that took the request: the request
\* wrote no file and called no model.
AnsweredAtOnce ==
    /\ started' = started + 1
    /\ uploads' = uploads
    /\ outputs' = outputs
    /\ modelCalls' = modelCalls

\* C6 as stated: an upload passes the file-type check exactly when its name
\* has an image extension; every other name is answered with the
\* invalid-file-type error, before any file is written or the model called.
C6_EveryOtherNameInvalidType ==
    [][/\ OnlyImagesInFlight
       /\ (Replied /\ lastResp'.endpoint = "/analyze"
             /\ CarriesFile(lastResp'.request))
          => IF HasImageExtension(lastResp'.request.filename)
             THEN ~RejectedAs(lastResp', InvalidFileType)
             ELSE /\ RejectedAs(lastResp', InvalidFileType)
                  /\ AnsweredAtOnce]_vars

\* C6, amended: the same for every name that is not empty; the empty name
\* is answered with the no-file-selected error, again before any file is
\* written or the model called.
C6_NonEmptyNameInvalidType ==
    [][/\ OnlyImagesInFlight
       /\ (Replied /\ lastResp'.endpoint = "/analyze"
             /\ CarriesFile(lastResp'.request))
          => IF HasImageExtension(lastResp'.request.filename)
             THEN ~RejectedAs(lastResp', InvalidFileType)
             ELSE /\ AnsweredAtOnce
                  /\ RejectedAs(lastResp',
                                IF lastResp'.request.filename = <<>>
                                THEN Err("No file selected")
                                ELSE InvalidFileType)]_vars

\* A name whose extension is an image's in upper case passed the check.
C6_Witness ==
    /\ lastResp.endpoint = "/analyze"
    /\ lastResp.request.filename = <<"b", ".", "B", "m", "p">>
    /\ lastResp.body.success = TRUE

\* The path names a place above the directory it is joined to.
HasDotDot(path) ==
    \/ path = <<".", ".">>
    \/ \E i \in 1..(Len(path) - 2) : SubSeq(path, i, i + 2) = <<".", ".", "/">>

NotFoundOutcome(resp) ==
    /\ Failure(resp)
    /\ \/ resp.status = 404
       \/ resp.body.error[1] = "File not found: "

\* C7: /download of a path with "../" in it, or of "..", answers not found;
\* what /download sends is the content of a file directly in outputs/.
C7_DownloadStaysInOutputs ==
    [][(Replied /\ lastResp'.endpoint = "/download")
       => /\ HasDotDot(lastResp'.request) => NotFoundOutcome(lastResp')
          /\ ~lastResp'.json
             => /\ lastResp'.request \in DOMAIN outputs
                /\ lastResp'.body = outputs[lastResp'.request]
          /\ lastResp'.json => NotFoundOutcome(lastResp')]_vars

\* The path of a stored upload, asked for through "../uploads/".
C7_Witness ==
    /\ lastResp.endpoint = "/download"
    /\ \E u \in DOMAIN uploads :
          /\ uploads[u] # <<>>
          /\ lastResp.request = <<".", ".", "/">> \o s_uploads \o <<"/">> \o u
    /\ NotFoundOutcome(lastResp)

\* C8: every JSON response carries a boolean success, and an error message
\* when success is false.
C8_EveryJsonBodyHasSuccess ==
    lastResp.json
    => /\ "success" \in DOMAIN lastResp.body
       /\ lastResp.body.success \in BOOLEAN
       /\ lastResp.body.success = FALSE => "error" \in DOMAIN lastResp.body

\* C9: /history never fails, whatever is being written meanwhile: each turn
\* of its loop adds an entry for the file it read exactly when that file
\* holds a whole record, the response has success = true and the entries
\* collected, and no step of it changes outputs/.
C9_HistorySkipsUnparsedFiles ==
    [][\A r \in Workers :
          (pc[r] = "h_listed" /\ <<pc[r], loc[r]>>' # <<pc[r], loc[r]>>)
          => /\ outputs' = outputs
             /\ IF pc'[r] = "h_listed"
                THEN \E f \in loc[r].todo :
                        /\ loc'[r].todo = loc[r].todo \ {f}
                        /\ IF IsWhole(outputs[f])
                           THEN /\ Cardinality(loc'[r].files)
                                     = Cardinality(loc[r].files) + 1
                                /\ \E e \in loc'[r].files \ loc[r].files :
                                      e.filename = f
                           ELSE loc'[r].files = loc[r].files
                ELSE /\ lastResp'.endpoint = "/history"
                     /\ lastResp'.id = loc[r].id
                     /\ lastResp'.status = 200
                     /\ lastResp'.body.success = TRUE
                     /\ { lastResp'.body.files[i] :
                            i \in 1..Len(lastResp'.body.files) } = loc[r].files
                     /\ Len(lastResp'.body.files) = Cardinality(loc[r].files)]_vars

\* /history is about to read a file that a request in flight has opened and
\* not yet written, having listed a whole record before.
C9_Witness ==
    \E r, w \in Workers :
        /\ pc[r] = "h_listed"
        /\ pc[w] = "p_opened"
        /\ plan_filename(loc[w].timestamp) \in loc[r].todo
        /\ ~IsWhole(outputs[plan_filename(loc[w].timestamp)])
        /\ loc[r].files # {}

\* The name under which line 82 stores the upload of a request.
StoredName(timestamp, req) ==
    timestamp \o <<"_">> \o secure_filename(req.filename)

\* C10 as stated, for the one request of the file-name specification:
\* outputs/ holds a record file exactly when the response has success =
\* true.
C10_RecordFileIffSuccess ==
    lastResp.endpoint = "/analyze"
    => (lastResp.body.success = TRUE <=> DOMAIN outputs # {})

\* The worker that sends the response of this step, were it in flight.
Answering(r) == InFlight(r) /\ loc[r].id = lastResp'.id

\* outputs/ changed at most in the file of that name.
OnlyFileChanged(name) ==
    /\ DOMAIN outputs' = DOMAIN outputs \cup {name}
    /\ \A f \in DOMAIN outputs \ {name} : outputs'[f] = outputs[f]

\* C10, amended: the request writes a whole record exactly when it answers
\* success = true, and that record is the response, names the upload
\* <timestamp>_<sanitized name> and lies in analysis_<timestamp>.json; a
\* request that fails before it opens the record file never changes
\* outputs/, and leaves its upload in uploads/ if it had saved it; a request
\* that fails with a record write error leaves analysis_<timestamp>.json
\* empty or cut short.
C10_WholeRecordIffSuccess ==
    [][/\ \A r \in Workers :
             \/ pc[r] = "idle" /\ pc'[r] = "a_saved"
             \/ pc[r] = "a_saved" /\ pc'[r] # "a_saved"
             => outputs' = outputs
       /\ (Replied /\ lastResp'.endpoint = "/analyze")
          => LET resp == lastResp'
                 opened == \E r \in Workers : Answering(r) /\ pc[r] = "a_opened"
             IN  IF resp.body.success = TRUE
                 THEN LET ts == resp.body.timestamp
                          name == s_analysis_ \o ts \o s_json
                      IN  /\ opened
                          /\ OnlyFileChanged(name)
                          /\ IsWhole(outputs'[name])
                          /\ json_load(outputs'[name]).data = resp.body
                          /\ resp.body.filename = StoredName(ts, resp.request)
                          /\ resp.body.filename \in DOMAIN uploads'
                 ELSE IF opened
                 THEN \E r \in Workers :
                         LET name == s_analysis_ \o loc[r].timestamp \o s_json
                         IN  /\ Answering(r)
                             /\ OnlyFileChanged(name)
                             /\ ~IsWhole(outputs'[name])
                 ELSE /\ outputs' = outputs
                      /\ \A r \in Workers :
                            Answering(r)
                            => StoredName(loc[r].timestamp, resp.request)
                                 \in DOMAIN uploads']_vars

\* A record written a second after the upload was stored, under a name that
\* secure_filename changed.
C10_Witness ==
    /\ lastResp.endpoint = "/analyze"
    /\ lastResp.body.success = TRUE
    /\ lastResp.body.timestamp # strftime(now)
    /\ lastResp.request.filename = <<"/", ".", "B", "m", "p">>
    /\ lastResp.body.filename = lastResp.body.timestamp \o <<"_", "B", "m", "p">>

====
